---- MODULE Spec2Model ----
(***************************************************************************)
(* LTC6811 daisy-chain driver (src/LTC6811.h, src/LTC6811.cpp): the PEC15  *)
(* codec, the command builder, register-group transactions, the status     *)
(* scan and the balancing decision as a state machine.                     *)
(*                                                                         *)
(* Integers keep the width the source gives them: uint8_t values are kept  *)
(* in 0..255, uint16_t values in 0..65535.  Memory images are those of the *)
(* little-endian Cortex-M target the HAL calls belong to.                  *)
(***************************************************************************)
EXTENDS Integers, Sequences, FiniteSets, TLC

(***************************************************************************)
(* Fixed-width integer helpers                                             *)
(***************************************************************************)
Pow2(n) == IF n = 0 THEN 1 ELSE
           IF n = 1 THEN 2 ELSE
           IF n = 2 THEN 4 ELSE
           IF n = 3 THEN 8 ELSE
           IF n = 4 THEN 16 ELSE
           IF n = 5 THEN 32 ELSE
           IF n = 6 THEN 64 ELSE
           IF n = 7 THEN 128 ELSE
           IF n = 8 THEN 256 ELSE
           IF n = 9 THEN 512 ELSE
           IF n = 10 THEN 1024 ELSE
           IF n = 11 THEN 2048 ELSE
           IF n = 12 THEN 4096 ELSE
           IF n = 13 THEN 8192 ELSE
           IF n = 14 THEN 16384 ELSE
           IF n = 15 THEN 32768 ELSE 65536

RECURSIVE XorBits(_, _)
XorBits(a, b) ==
    IF a = 0 THEN b
    ELSE IF b = 0 THEN a
    ELSE ((a + b) % 2) + 2 * XorBits(a \div 2, b \div 2)

\* Exclusive or of two bytes, tabulated once.
Xor8 == [a \in 0 .. 255 |-> [b \in 0 .. 255 |-> XorBits(a, b)]]

\* Exclusive or of two values below 2^24, byte by byte.
BitXor(a, b) ==
    Xor8[a % 256][b % 256] +
    256 * Xor8[(a \div 256) % 256][(b \div 256) % 256] +
    65536 * Xor8[(a \div 65536) % 256][(b \div 65536) % 256]

RECURSIVE BitOr(_, _)
BitOr(a, b) ==
    IF a = 0 THEN b
    ELSE IF b = 0 THEN a
    ELSE (IF a % 2 = 1 \/ b % 2 = 1 THEN 1 ELSE 0) + 2 * BitOr(a \div 2, b \div 2)

RECURSIVE BitAnd(_, _)
BitAnd(a, b) ==
    IF a = 0 \/ b = 0 THEN 0
    ELSE (IF a % 2 = 1 /\ b % 2 = 1 THEN 1 ELSE 0) + 2 * BitAnd(a \div 2, b \div 2)

Shl(a, n) == a * Pow2(n)
Shr(a, n) == a \div Pow2(n)
Bit(a, n) == Shr(a, n) % 2
U8(a)  == a % 256
U16(a) == a % 65536

(***************************************************************************)
(* PEC15 codec                                                             *)
(***************************************************************************)
kBytesPerRegister == 8
kDaisyChainLength == 12
kCommandLength == 4
kDelta == 100

crc15Table ==
    <<\H0000, \Hc599, \Hceab, \H0b32, \Hd8cf, \H1d56, \H1664, \Hd3fd, \Hf407, \H319e, \H3aac, \Hff35, \H2cc8, \He951, \He263, \H27fa,
       \Had97, \H680e, \H633c, \Ha6a5, \H7558, \Hb0c1, \Hbbf3, \H7e6a, \H5990, \H9c09, \H973b, \H52a2, \H815f, \H44c6, \H4ff4, \H8a6d,
       \H5b2e, \H9eb7, \H9585, \H501c, \H83e1, \H4678, \H4d4a, \H88d3, \Haf29, \H6ab0, \H6182, \Ha41b, \H77e6, \Hb27f, \Hb94d, \H7cd4,
       \Hf6b9, \H3320, \H3812, \Hfd8b, \H2e76, \Hebef, \He0dd, \H2544, \H02be, \Hc727, \Hcc15, \H098c, \Hda71, \H1fe8, \H14da, \Hd143,
       \Hf3c5, \H365c, \H3d6e, \Hf8f7, \H2b0a, \Hee93, \He5a1, \H2038, \H07c2, \Hc25b, \Hc969, \H0cf0, \Hdf0d, \H1a94, \H11a6, \Hd43f,
       \H5e52, \H9bcb, \H90f9, \H5560, \H869d, \H4304, \H4836, \H8daf, \Haa55, \H6fcc, \H64fe, \Ha167, \H729a, \Hb703, \Hbc31, \H79a8,
       \Ha8eb, \H6d72, \H6640, \Ha3d9, \H7024, \Hb5bd, \Hbe8f, \H7b16, \H5cec, \H9975, \H9247, \H57de, \H8423, \H41ba, \H4a88, \H8f11,
       \H057c, \Hc0e5, \Hcbd7, \H0e4e, \Hddb3, \H182a, \H1318, \Hd681, \Hf17b, \H34e2, \H3fd0, \Hfa49, \H29b4, \Hec2d, \He71f, \H2286,
       \Ha213, \H678a, \H6cb8, \Ha921, \H7adc, \Hbf45, \Hb477, \H71ee, \H5614, \H938d, \H98bf, \H5d26, \H8edb, \H4b42, \H4070, \H85e9,
       \H0f84, \Hca1d, \Hc12f, \H04b6, \Hd74b, \H12d2, \H19e0, \Hdc79, \Hfb83, \H3e1a, \H3528, \Hf0b1, \H234c, \He6d5, \Hede7, \H287e,
       \Hf93d, \H3ca4, \H3796, \Hf20f, \H21f2, \He46b, \Hef59, \H2ac0, \H0d3a, \Hc8a3, \Hc391, \H0608, \Hd5f5, \H106c, \H1b5e, \Hdec7,
       \H54aa, \H9133, \H9a01, \H5f98, \H8c65, \H49fc, \H42ce, \H8757, \Ha0ad, \H6534, \H6e06, \Hab9f, \H7862, \Hbdfb, \Hb6c9, \H7350,
       \H51d6, \H944f, \H9f7d, \H5ae4, \H8919, \H4c80, \H47b2, \H822b, \Ha5d1, \H6048, \H6b7a, \Haee3, \H7d1e, \Hb887, \Hb3b5, \H762c,
       \Hfc41, \H39d8, \H32ea, \Hf773, \H248e, \He117, \Hea25, \H2fbc, \H0846, \Hcddf, \Hc6ed, \H0374, \Hd089, \H1510, \H1e22, \Hdbbb,
       \H0af8, \Hcf61, \Hc453, \H01ca, \Hd237, \H17ae, \H1c9c, \Hd905, \Hfeff, \H3b66, \H3054, \Hf5cd, \H2630, \He3a9, \He89b, \H2d02,
       \Ha76f, \H62f6, \H69c4, \Hac5d, \H7fa0, \Hba39, \Hb10b, \H7492, \H5368, \H96f1, \H9dc3, \H585a, \H8ba7, \H4e3e, \H450c, \H8095 >>

\* PEC15Calc's loop: one table step per byte, bytes[1..size] being
\* serialized_data[0..size-1]; PEC is a uint16_t.
RECURSIVE PEC15Loop(_, _, _, _)
PEC15Loop(bytes, size, i, PEC) ==
    IF i >= size THEN PEC
    ELSE LET addr == U8(BitXor(PEC \div 128, bytes[i + 1]))
         IN  PEC15Loop(bytes, size, i + 1,
                       U16(BitXor(PEC * 256, crc15Table[addr + 1])))

\* A codec that stops one byte short of the payload.
PEC15CalcShort(bytes, size) == U16(PEC15Loop(bytes, size - 1, 0, 16) * 2)

PEC15Calc(bytes, size) == U16(PEC15Loop(bytes, size, 0, 16) * 2)

(***************************************************************************)
(* Registers and their memory images                                       *)
(*   LTC6811Register<uint8_t>  : data = 6 bytes,  PEC = uint16_t           *)
(*   LTC6811Register<uint16_t> : data = 3 words,  PEC = uint16_t           *)
(***************************************************************************)
Lo(w) == w % 256
Hi(w) == (w \div 256) % 256

\* The 6 data bytes PEC15Calc sees through its reinterpret_cast.
DataBytes8(data)  == data
DataBytes16(data) == << Lo(data[1]), Hi(data[1]), Lo(data[2]), Hi(data[2]),
                        Lo(data[3]), Hi(data[3]) >>

\* The 8-byte image of a register in memory, as handed to / filled by the
\* transport.
Image8(r)  == DataBytes8(r.data)  \o << Lo(r.PEC), Hi(r.PEC) >>
Image16(r) == DataBytes16(r.data) \o << Lo(r.PEC), Hi(r.PEC) >>

FromImage8(b)  == [data |-> SubSeq(b, 1, 6), PEC |-> b[7] + 256 * b[8]]
FromImage16(b) == [data |-> << b[1] + 256 * b[2], b[3] + 256 * b[4],
                               b[5] + 256 * b[6] >>,
                   PEC  |-> b[7] + 256 * b[8]]

\* The comparison of ReadRegisterGroup: Register.PEC != PEC15Calc(Register.data)
PECMismatch8(r)  == r.PEC # PEC15Calc(DataBytes8(r.data), 6)
PECMismatch16(r) == r.PEC # PEC15Calc(DataBytes16(r.data), 6)

\* cfg_register.PEC = PEC15Calc(cfg_register.data)
WithPEC8(r) == [r EXCEPT !.PEC = PEC15Calc(DataBytes8(r.data), 6)]

(***************************************************************************)
(* Enumerations and fixed command literals                                 *)
(***************************************************************************)
Fast == 1
Normal == 2
Filtered == 3
Modes == {Fast, Normal, Filtered}
CellChs == 0 .. 6      \* AllCell .. SixAndTwelve
AuxChs  == 0 .. 6      \* AllAux .. VREF2
STSChs  == 0 .. 4      \* AllStat .. VD
DCPs    == 0 .. 1      \* Disabled, Enabled
Groups  == 0 .. 3      \* A, B, C, D
DischargeModes == {"GTMinPlusDelta", "MaxOnly", "GTMeanPlusDelta"}

\* HAL_StatusTypeDef; HAL_OK is the value that converts to false.
HALStatus == {"HAL_OK", "HAL_ERROR", "HAL_BUSY", "HAL_TIMEOUT"}

T_WAKE_MAX == 400
T_REFUP_MAX == 4400
T_CYCLE_FAST_MAX == 1185

slave_cfg_tx_command == << \H00, \H01, \H3D, \H6E >>
slave_cfg_rx_command == << \H00, \H02, \H2B, \H0A >>
\* The group-A read command with its PEC bytes low byte first.
cell_data_commandSwapped == [g \in 0 .. 3 |->
    CASE g = 0 -> << 0, 4, 194, 7 >>
      [] g = 1 -> << 0, 6, 154, 148 >>
      [] g = 2 -> << 0, 8, 94, 82 >>
      [] g = 3 -> << 0, 10, 195, 4 >>]
cell_data_command == [g \in Groups |->
    CASE g = 0 -> << 0, 4, 7, 194 >>
      [] g = 1 -> << 0, 6, 154, 148 >>
      [] g = 2 -> << 0, 8, 94, 82 >>
      [] g = 3 -> << 0, 10, 195, 4 >>]
temp_data_command == [g \in 0 .. 1 |->
    CASE g = 0 -> << 0, 12, 239, 204 >>
      [] g = 1 -> << 0, 14, 114, 154 >>]
status_registers_command == [g \in 0 .. 1 |->
    CASE g = 0 -> << \H00, \H10, \HED, \H72 >>
      [] g = 1 -> << \H00, \H12, \H70, \H24 >>]
\* constexpr static LTC6811Command command of the two clear functions
ClearVoltageRegistersCommand == << 7, 17, 201, 192 >>
ClearAuxRegistersCommand == << 7, 18, 223, 164 >>

Devices == 0 .. kDaisyChainLength - 1

(***************************************************************************)
(* Command builder: the constructor's opcode and PEC assembly              *)
(***************************************************************************)
CommandWithPEC(b0, b1) ==
    LET PEC == PEC15Calc(<< b0, b1 >>, 2)
    IN  << b0, b1, U8(Shr(PEC, 8)), U8(PEC) >>

\* A builder that folds neither mode bit into byte 0.
BuildADCVFlat(mode, dcp, cell) ==
    CommandWithPEC(2,
                   U8(BitOr(BitOr(BitOr(U8(Shl(BitAnd(mode, 1), 7)), 96),
                                  Shl(dcp, 4)), cell)))

BuildADCV(mode, dcp, cell) ==
    LET md_hi == Shr(BitAnd(mode, 2), 1)
        md_lo == U8(Shl(BitAnd(mode, 1), 7))
    IN  CommandWithPEC(BitOr(2, md_hi),
                       U8(BitOr(BitOr(BitOr(md_lo, 96), Shl(dcp, 4)), cell)))

BuildADAX(mode, aux) ==
    LET md_hi == Shr(BitAnd(mode, 2), 1)
        md_lo == U8(Shl(BitAnd(mode, 1), 7))
    IN  CommandWithPEC(BitOr(4, md_hi), U8(BitOr(BitOr(md_lo, 96), aux)))

BuildADSTAT(mode, sts) ==
    LET md_hi == Shr(BitAnd(mode, 2), 1)
        md_lo == U8(Shl(BitAnd(mode, 1), 7))
    IN  CommandWithPEC(BitOr(4, md_hi), U8(BitOr(BitOr(md_lo, 104), sts)))

(***************************************************************************)
(* Bus events: the select line (GPIOA pin 5, RESET = asserted), bytes      *)
(* handed to HAL_SPI_Transmit, byte counts asked of HAL_SPI_Receive and    *)
(* DWT_Delay waits.                                                        *)
(***************************************************************************)
EvSelect(level) == [op |-> "select", level |-> level, bytes |-> << >>, n |-> 0]
EvTransmit(b)   == [op |-> "transmit", level |-> "", bytes |-> b, n |-> Len(b)]
EvReceive(n)    == [op |-> "receive", level |-> "", bytes |-> << >>, n |-> n]
EvDelay(us)     == [op |-> "delay", level |-> "", bytes |-> << >>, n |-> us]

RECURSIVE Repeat(_, _)
Repeat(s, k) == IF k = 0 THEN << >> ELSE s \o Repeat(s, k - 1)

WakeFromSleep ==
    Repeat(<< EvSelect("RESET"), EvDelay(T_WAKE_MAX),
              EvSelect("SET"), EvDelay(10) >>, kDaisyChainLength)

\* A wake procedure one cycle short.
WakeFromIdleShort ==
    Repeat(<< EvSelect("RESET"), EvTransmit(<< 255 >>), EvSelect("SET") >>,
           kDaisyChainLength - 1)

WakeFromIdle ==
    Repeat(<< EvSelect("RESET"), EvTransmit(<< 255 >>), EvSelect("SET") >>,
           kDaisyChainLength)

\* The level the select line is left at by a sequence of events.
RECURSIVE LastSelect(_, _)
LastSelect(events, before) ==
    IF events = << >> THEN before
    ELSE LET e == events[Len(events)]
         IN  IF e.op = "select" THEN e.level
             ELSE LastSelect(SubSeq(events, 1, Len(events) - 1), before)

StartConversion(command) ==
    WakeFromIdle \o
    << EvSelect("RESET"), EvTransmit(command), EvSelect("SET"),
       EvDelay(T_REFUP_MAX + T_CYCLE_FAST_MAX) >>

(***************************************************************************)
(* Transaction engine                                                      *)
(*                                                                         *)
(* A transaction's inputs are what the transport does: the status of       *)
(* HAL_SPI_Transmit (tx), the status of HAL_SPI_Receive (rx), whether the  *)
(* receive stored the bytes it clocked in (wrote) and the N register       *)
(* images on the line (received).  The bool results are the source's:      *)
(* TRUE is 1 (failure), FALSE is 0 (success).                              *)
(***************************************************************************)
ReadEvents(command, tx) ==
    WakeFromIdle \o
    << EvSelect("RESET"), EvTransmit(command), EvSelect("RESET") >> \o
    (IF tx = "HAL_ERROR" THEN << >>
     ELSE << EvReceive(kBytesPerRegister * kDaisyChainLength) >>)

\* ReadRegisterGroup: result.ret is the returned bool, result.buf the
\* register buffer afterwards.  HAL_SPI_Receive is only called when the
\* transmit did not return HAL_ERROR.
ReadRegisterGroup(buf, T, in) ==
    LET called == in.tx # "HAL_ERROR"
        newbuf == IF called /\ in.wrote
                  THEN [d \in Devices |->
                           IF T = "uint16_t" THEN FromImage16(in.received[d])
                           ELSE FromImage8(in.received[d])]
                  ELSE buf
        ret    == IF in.tx = "HAL_ERROR" \/ in.rx = "HAL_ERROR" THEN TRUE
                  ELSE \E d \in Devices :
                          IF T = "uint16_t" THEN PECMismatch16(newbuf[d])
                          ELSE PECMismatch8(newbuf[d])
    IN  [ret |-> ret, buf |-> newbuf]

\* A byte stream with the registers in descending index.
WriteStreamDescending(command, regs) ==
    command \o
    [k \in 1 .. kBytesPerRegister * kDaisyChainLength |->
        Image8(regs[kDaisyChainLength - 1 - ((k - 1) \div kBytesPerRegister)])
              [((k - 1) % kBytesPerRegister) + 1]]

\* The sizeof(register_group) bytes at &register_group: the command, then
\* the image of register_group[0], [1], ...
WriteStream(command, regs) ==
    command \o
    [k \in 1 .. kBytesPerRegister * kDaisyChainLength |->
        Image8(regs[(k - 1) \div kBytesPerRegister])
              [((k - 1) % kBytesPerRegister) + 1]]

WriteEvents(command, regs) ==
    WakeFromIdle \o
    << EvSelect("RESET"), EvTransmit(WriteStream(command, regs)),
       EvSelect("SET") >>

\* WriteRegisterGroup returns the HAL status converted to bool.
WriteRegisterGroup(tx) == tx # "HAL_OK"

(***************************************************************************)
(* The chain as seen from the bus: the cell-voltage registers the devices  *)
(* hold after a conversion and the images they shift out on a read.        *)
(***************************************************************************)
NoCorrupt == 0 - 1

\* A register as a device holds it: the data and the PEC that matches it.
Held16(data) == [data |-> data, PEC |-> PEC15Calc(DataBytes16(data), 6)]
Held8(data)  == [data |-> data, PEC |-> PEC15Calc(DataBytes8(data), 6)]

\* The images of a group of held registers on the line; the register at
\* index corrupt arrives with one bit inverted: a bit of its PEC or a bit
\* of its first datum.
Corrupted(r, d, corrupt, hit) ==
    IF d # corrupt THEN r
    ELSE IF hit = "pec" THEN [r EXCEPT !.PEC = BitXor(@, 2)]
    ELSE [r EXCEPT !.data[1] = BitXor(@, 1)]

CellImages(registers, corrupt, hit) ==
    [d \in Devices |-> Image16(Corrupted(registers[d], d, corrupt, hit))]

CfgImages(registers, corrupt, hit) ==
    [d \in Devices |-> Image8(Corrupted(registers[d], d, corrupt, hit))]

\* A write as the chain takes it: every device passes the frame it holds on
\* to the next device when a new frame arrives, device 0 being the head of
\* the chain.  The frames are those of the byte stream after the command.
RECURSIVE ShiftAll(_, _, _)
ShiftAll(landed, stream, i) ==
    IF i >= kDaisyChainLength THEN landed
    ELSE LET frame == SubSeq(stream,
                             kCommandLength + kBytesPerRegister * i + 1,
                             kCommandLength + kBytesPerRegister * (i + 1))
         IN  ShiftAll([k \in Devices |-> IF k = 0 THEN frame ELSE landed[k - 1]],
                      stream, i + 1)

\* The chain after a write whose transmit returned tx.
AfterWrite(ch, stream, tx) ==
    IF tx = "HAL_OK" THEN [ch EXCEPT !.landed = ShiftAll(@, stream, 0)] ELSE ch

\* The transport outcomes of one read: transmit status, receive status,
\* whether the buffer was stored to, and which register (if any) arrives
\* with a PEC that does not match its data.
\* On a line whose transport never fails ("pec", "data") only HAL_OK is
\* returned; on a "data" line the inverted bit can be a data bit as well.
LineStatus(line) == IF line = "any" THEN HALStatus ELSE {"HAL_OK"}

ReadOutcomes(line, corruptible) ==
    { o \in [tx : LineStatus(line), rx : LineStatus(line), wrote : BOOLEAN,
             corrupt : corruptible \cup {NoCorrupt}, hit : IF line = "data" THEN {"pec", "data"}
                                                           ELSE {"pec"}] :
        /\ o.tx = "HAL_ERROR" => (o.rx = "HAL_OK" /\ ~o.wrote)
        /\ (o.tx # "HAL_ERROR" /\ o.rx = "HAL_OK") => o.wrote
        /\ o.rx = "HAL_BUSY" => ~o.wrote
        /\ ~o.wrote => o.corrupt = NoCorrupt
        /\ o.corrupt = NoCorrupt => o.hit = "pec" }

(***************************************************************************)
(* Status aggregator                                                       *)
(***************************************************************************)
\* The readings in the order the three nested range-for loops visit them:
\* register group, then Register within the group, then element of data.
RECURSIVE ScanRegister(_, _)
ScanRegister(registers, d) ==
    IF d >= kDaisyChainLength THEN << >>
    ELSE registers[d].data \o ScanRegister(registers, d + 1)

RECURSIVE ScanPosition(_, _, _)
ScanPosition(registers, p, d) ==
    IF p > 3 THEN << >>
    ELSE IF d >= kDaisyChainLength THEN ScanPosition(registers, p + 1, 0)
    ELSE << registers[d].data[p] >> \o ScanPosition(registers, p, d + 1)

\* A scan that walks the devices innermost (position in the middle).
RECURSIVE ScanOrderDeviceInner(_, _)
ScanOrderDeviceInner(cd, g) ==
    IF g > 3 THEN << >>
    ELSE ScanPosition(cd[g], 1, 0) \o ScanOrderDeviceInner(cd, g + 1)

RECURSIVE ScanOrderFrom(_, _)
ScanOrderFrom(cd, g) ==
    IF g > 3 THEN << >>
    ELSE ScanRegister(cd[g], 0) \o ScanOrderFrom(cd, g + 1)

ScanOrderSwapped(cd) == ScanOrderDeviceInner(cd, 0)

ScanOrder(cd) == ScanOrderFrom(cd, 0)

\* LTC6811VoltageStatus{}; sum is a size_t and cannot wrap for 12 * N
\* 16-bit readings.
NewVoltageStatus == [sum |-> 0, min |-> 65535, min_id |-> 0,
                     max |-> 0, max_id |-> 0]

\* One iteration of the innermost loop of GetVoltageStatus.
VoltageStep(status, voltage, count) ==
    LET s1 == [status EXCEPT !.sum = status.sum + voltage]
    IN  IF voltage < s1.min
        THEN [s1 EXCEPT !.min = voltage, !.min_id = count]
        ELSE IF voltage > s1.max
        THEN [s1 EXCEPT !.max = voltage, !.max_id = count]
        ELSE s1

\* The scan loops: run carries the status and the running count.
RECURSIVE VoltageFold(_, _)
VoltageFold(readings, run) ==
    IF run.count >= Len(readings) THEN run.status
    ELSE VoltageFold(readings,
             [status |-> VoltageStep(run.status, readings[run.count + 1], run.count),
              count  |-> run.count + 1])

VoltageScan(cd) ==
    VoltageFold(ScanOrder(cd), [status |-> NewVoltageStatus, count |-> 0])

\* int16_t <-> uint16_t conversions of the target.
ToInt16(u) == IF u >= 32768 THEN u - 65536 ELSE u
ToUint16(i) == IF i < 0 THEN i + 65536 ELSE i

\* steinharthart over the raw codes 14890 .. 15250 (the codes a pack of
\* this model can hold), evaluated in IEEE single precision and truncated
\* to int16_t.
steinharthartTable ==
    <<2533, 2533, 2532, 2532, 2532, 2531, 2531, 2531, 2531, 2530, 2530, 2530,
       2529, 2529, 2529, 2528, 2528, 2528, 2528, 2527, 2527, 2527, 2526, 2526,
       2526, 2525, 2525, 2525, 2524, 2524, 2524, 2524, 2523, 2523, 2523, 2522,
       2522, 2522, 2521, 2521, 2521, 2520, 2520, 2520, 2520, 2519, 2519, 2519,
       2518, 2518, 2518, 2517, 2517, 2517, 2517, 2516, 2516, 2516, 2515, 2515,
       2515, 2514, 2514, 2514, 2513, 2513, 2513, 2513, 2512, 2512, 2512, 2511,
       2511, 2511, 2510, 2510, 2510, 2510, 2509, 2509, 2509, 2508, 2508, 2508,
       2507, 2507, 2507, 2507, 2506, 2506, 2506, 2505, 2505, 2505, 2504, 2504,
       2504, 2503, 2503, 2503, 2503, 2502, 2502, 2502, 2501, 2501, 2501, 2500,
       2500, 2500, 2500, 2499, 2499, 2499, 2498, 2498, 2498, 2497, 2497, 2497,
       2496, 2496, 2496, 2496, 2495, 2495, 2495, 2494, 2494, 2494, 2493, 2493,
       2493, 2493, 2492, 2492, 2492, 2491, 2491, 2491, 2490, 2490, 2490, 2489,
       2489, 2489, 2489, 2488, 2488, 2488, 2487, 2487, 2487, 2486, 2486, 2486,
       2486, 2485, 2485, 2485, 2484, 2484, 2484, 2483, 2483, 2483, 2482, 2482,
       2482, 2482, 2481, 2481, 2481, 2480, 2480, 2480, 2479, 2479, 2479, 2479,
       2478, 2478, 2478, 2477, 2477, 2477, 2476, 2476, 2476, 2476, 2475, 2475,
       2475, 2474, 2474, 2474, 2473, 2473, 2473, 2472, 2472, 2472, 2472, 2471,
       2471, 2471, 2470, 2470, 2470, 2469, 2469, 2469, 2469, 2468, 2468, 2468,
       2467, 2467, 2467, 2466, 2466, 2466, 2465, 2465, 2465, 2465, 2464, 2464,
       2464, 2463, 2463, 2463, 2462, 2462, 2462, 2462, 2461, 2461, 2461, 2460,
       2460, 2460, 2459, 2459, 2459, 2459, 2458, 2458, 2458, 2457, 2457, 2457,
       2456, 2456, 2456, 2455, 2455, 2455, 2455, 2454, 2454, 2454, 2453, 2453,
       2453, 2452, 2452, 2452, 2452, 2451, 2451, 2451, 2450, 2450, 2450, 2449,
       2449, 2449, 2448, 2448, 2448, 2448, 2447, 2447, 2447, 2446, 2446, 2446,
       2445, 2445, 2445, 2445, 2444, 2444, 2444, 2443, 2443, 2443, 2442, 2442,
       2442, 2442, 2441, 2441, 2441, 2440, 2440, 2440, 2439, 2439, 2439, 2438,
       2438, 2438, 2438, 2437, 2437, 2437, 2436, 2436, 2436, 2435, 2435, 2435,
       2435, 2434, 2434, 2434, 2433, 2433, 2433, 2432, 2432, 2432, 2432, 2431,
       2431, 2431, 2430, 2430, 2430, 2429, 2429, 2429, 2428, 2428, 2428, 2428,
       2427, 2427, 2427, 2426, 2426, 2426, 2425, 2425, 2425, 2425, 2424, 2424,
       2424 >>

\* The results a float-to-int16_t conversion of a NaN can take.
NaNResults == {0, 0 - 32768}

\* steinharthart(NTC_voltage): 0 and Vin give an infinite logarithm and
\* with it 0 - KtoC; a negative code or one above Vin gives the logarithm
\* of a negative number, a NaN, whose conversion is nan.
steinharthart(NTC_voltage, nan) ==
    IF NTC_voltage = 0 \/ NTC_voltage = 30000 THEN 0 - 27315
    ELSE IF NTC_voltage < 0 \/ NTC_voltage > 30000 THEN nan
    ELSE steinharthartTable[NTC_voltage - 14890 + 1]

NewTempStatus == [min |-> 32767, min_id |-> 0, max |-> 0 - 32768, max_id |-> 0]

\* One iteration of the innermost loop of GetTemperatureStatus.  The loop
\* variable has the element type of cell_data (uint16_t); the comparisons
\* are made after integer promotion.
TemperatureStep(status, raw, count, nan) ==
    LET temperature == ToUint16(steinharthart(ToInt16(raw), nan))
    IN  IF temperature < status.min
        THEN [status EXCEPT !.min = ToInt16(temperature), !.min_id = count]
        ELSE IF temperature > status.max
        THEN [status EXCEPT !.max = ToInt16(temperature), !.max_id = count]
        ELSE status

RECURSIVE TemperatureFold(_, _, _)
TemperatureFold(readings, run, nan) ==
    IF run.count >= Len(readings) THEN run.status
    ELSE TemperatureFold(readings,
             [status |-> TemperatureStep(run.status, readings[run.count + 1],
                                         run.count, nan),
              count  |-> run.count + 1], nan)

TemperatureScan(cd, nan) ==
    TemperatureFold(ScanOrder(cd), [status |-> NewTempStatus, count |-> 0], nan)

(***************************************************************************)
(* Balancing decision engine                                               *)
(***************************************************************************)
\* register_group[current_ic].data: an index outside the array reads
\* whatever lies there, oob.
RegisterAt(registers, current_ic, oob) ==
    IF current_ic < kDaisyChainLength THEN registers[current_ic].data ELSE oob

\* The three tests of one register's voltages against the threshold: the
\* bits they add to DCCx, current_cell being the first of the three.
CellBits(data, current_cell, threshold) ==
    (IF data[1] > threshold THEN Pow2(current_cell) ELSE 0) +
    (IF data[2] > threshold THEN Pow2(current_cell + 1) ELSE 0) +
    (IF data[3] > threshold THEN Pow2(current_cell + 2) ELSE 0)

\* The loop over the 4 voltage register groups for one configuration
\* register; current_ic is a uint8_t decremented after each use, used the
\* indices register_group[] has been accessed with so far.
RECURSIVE GroupLoop(_, _, _, _, _, _, _, _)
GroupLoop(cd, g, current_ic, current_cell, DCCx, threshold, oob, used) ==
    IF g > 3 THEN [DCCx |-> DCCx, current_ic |-> current_ic, used |-> used]
    ELSE GroupLoop(cd, g + 1, U8(current_ic + 255), current_cell + 3,
                   DCCx + CellBits(RegisterAt(cd[g], current_ic, oob),
                                   current_cell, threshold),
                   threshold, oob, Append(used, current_ic))

\* data[4] |= DCCx & 0xFF; data[5] |= DCCx >> 8 & 0xF; PEC recomputed.
OrMask(r, DCCx) ==
    WithPEC8([r EXCEPT !.data[5] = BitOr(@, BitAnd(DCCx, 255)),
                       !.data[6] = BitOr(@, BitAnd(Shr(DCCx, 8), 15))])

\* data[4] = DCCx & 0xFF; data[5] = DCCx >> 8 & 0xF; PEC recomputed.
AssignMask(r, DCCx) ==
    WithPEC8([r EXCEPT !.data[5] = BitAnd(DCCx, 255),
                       !.data[6] = BitAnd(Shr(DCCx, 8), 15)])

\* The loop over slave_cfg_tx.register_group of the two threshold policies.
\* run carries the staged registers, current_ic, the indices used and the
\* DCCx stored for each configuration register.
RECURSIVE CfgLoop(_, _, _, _, _)
CfgLoop(run, cd, i, threshold, oob) ==
    IF i >= kDaisyChainLength \/ Len(run.masks) # i THEN run
    ELSE LET r == GroupLoop(cd, 0, run.current_ic, 0, 0, threshold, oob, run.used)
         IN  CfgLoop([cfg |-> [run.cfg EXCEPT ![i] = OrMask(@, r.DCCx)],
                      current_ic |-> r.current_ic,
                      used |-> r.used,
                      masks |-> Append(run.masks, r.DCCx)],
                     cd, i + 1, threshold, oob)

\* uint8_t current_cell{ 0 }, current_ic{ kDaisyChainLength - 1 }
StartOfSwitch(cfg) ==
    [cfg |-> cfg, current_ic |-> kDaisyChainLength - 1, used |-> << >>,
     masks |-> << >>]

GTMinPlusDelta(cfg, cd, voltage_status, oob) ==
    CfgLoop(StartOfSwitch(cfg), cd, 0, voltage_status.min + kDelta, oob)

GTMeanPlusDelta(cfg, cd, voltage_status, oob) ==
    CfgLoop(StartOfSwitch(cfg), cd, 0,
            (voltage_status.sum \div (12 * kDaisyChainLength)) + kDelta, oob)

MaxOnly(cfg, voltage_status) ==
    IF voltage_status.max - voltage_status.min > kDelta
    THEN LET current_ic == U8((voltage_status.max_id \div 3) % 12)
             DCCx == Shl(1, voltage_status.max_id % 11)
         IN  [cfg |-> [cfg EXCEPT ![current_ic] = AssignMask(@, DCCx)],
              current_ic |-> current_ic,
              used |-> << current_ic >>,
              masks |-> << DCCx >>]
    ELSE StartOfSwitch(cfg)

\* The switch of BuildDischargeConfig: the staged configuration afterwards
\* (cfg), with the indices used and the masks stored.
StageDischarge(mode, cfg, cd, voltage_status, oob) ==
    CASE mode = "GTMinPlusDelta"  -> GTMinPlusDelta(cfg, cd, voltage_status, oob)
      [] mode = "MaxOnly"         -> MaxOnly(cfg, voltage_status)
      [] mode = "GTMeanPlusDelta" -> GTMeanPlusDelta(cfg, cd, voltage_status, oob)

\* The 12-bit discharge mask held in bytes 4-5 of a configuration register.
MaskOf(r) == r.data[5] + 256 * (r.data[6] % 16)

(***************************************************************************)
(* Model bounds and the environment's value sets                           *)
(***************************************************************************)
MaxCalls == 1          \* status reports started in one run
MaxBuilds == 2         \* BuildDischargeConfig calls in one run
MaxReads == 1          \* public register-group reads in one run
MaxWire == 1           \* public writes, clears and wake calls in one run
MaxSpecial == 4        \* cells that can carry the deviating reading
MaxCorrupt == 1        \* registers 0 .. MaxCorrupt-1 can arrive corrupted

CellsPerGroup == 3 * kDaisyChainLength
TotalCells == 4 * CellsPerGroup

\* Raw codes of the pack: a base level around 1.5 V and deviations just
\* above, exactly at and below the balancing delta.
Base == 150 * kDelta
Deviations == {kDelta + 1, kDelta, 0 - (kDelta + 1)}
SpecialIds == {(47 * k) % TotalCells : k \in 0 .. MaxSpecial - 1}

\* The chain's cell-voltage registers built from the reading of every cell,
\* cells being numbered group by group, device by device.
PackOf(f) ==
    [g \in Groups |-> [d \in Devices |->
        Held16(<< f[CellsPerGroup * g + 3 * d], f[CellsPerGroup * g + 3 * d + 1],
                  f[CellsPerGroup * g + 3 * d + 2] >>)]]

FlatPack == PackOf([id \in 0 .. TotalCells - 1 |-> Base])
OneCellPack(s, dv) ==
    PackOf([id \in 0 .. TotalCells - 1 |-> IF id = s THEN Base + dv ELSE Base])
TwoCellPack(s, dv) ==
    PackOf([id \in 0 .. TotalCells - 1 |->
               IF id = s \/ id = (s + 50) % TotalCells THEN Base + dv ELSE Base])
RampUpPack == PackOf([id \in 0 .. TotalCells - 1 |-> Base + id])
RampDownPack ==
    PackOf([id \in 0 .. TotalCells - 1 |-> Base + (TotalCells - 1) - id])

\* One cell above the balancing delta in a register the threshold policies
\* reach within the buffers (group B of device 2).
HighCellPack == OneCellPack(CellsPerGroup + 3 * 2 + 1, kDelta + 1)

Packs ==
    {FlatPack, RampUpPack, RampDownPack, HighCellPack} \cup
    {OneCellPack(s, dv) : s \in SpecialIds, dv \in Deviations} \cup
    {TwoCellPack(s, dv) : s \in SpecialIds, dv \in {kDelta + 1, 0 - (kDelta + 1)}}

\* Contents of storage the constructor leaves uninitialised, and of the
\* memory an out-of-range register index reads.
UninitWords == {0, 65535}
\* The data an out-of-range register index reads: the same word in its
\* three places.
OobData == {[k \in 1 .. 3 |-> w] : w \in {0, 65535}}
Corruptible == 0 .. MaxCorrupt - 1

(***************************************************************************)
(* State                                                                   *)
(***************************************************************************)
VARIABLES
    ADCV, ADAX, ADSTAT,     \* conversion commands built by the constructor
    discharge_mode,         \* DischargeMode
    slave_cfg_tx,           \* staged configuration registers
    slave_cfg_rx,           \* configuration registers read back
    cell_data,              \* the four voltage register-group buffers
    status_registers,       \* the two status register-group buffers
    cs,                     \* level of the select line
    bus,                    \* bus events of the latest operation step
    chain,                  \* registers held by the devices
    pc,                     \* operation in progress, "idle" between calls
    group,                  \* loop variable of the read loops
    read_results,           \* the latest status call and the bools its reads returned
    voltage_status,         \* optional returned by the latest GetVoltageStatus
    temp_status,            \* optional returned by the latest GetTemperatureStatus
    last_read,              \* the latest ReadRegisterGroup: inputs and result
    calls,                  \* status reports, builds and public reads started
    built,                  \* the latest BuildDischargeConfig: what it used and got
    scanned,                \* cell_data as the latest returned voltage status saw it
    probe                   \* inputs and outputs of the codec/builder checks

vars == << ADCV, ADAX, ADSTAT, discharge_mode, slave_cfg_tx, slave_cfg_rx,
           cell_data, status_registers, cs, bus, chain, pc, group, read_results,
           voltage_status, temp_status, last_read, calls, built, scanned,
           probe >>

NoVoltageStatus == [has |-> FALSE, status |-> NewVoltageStatus]
NoTempStatus == [has |-> FALSE, status |-> NewTempStatus]
NoRead == [op |-> "none", group |-> 0, command |-> << >>,
           tx |-> "HAL_OK", rx |-> "HAL_OK",
           wrote |-> FALSE, corrupt |-> NoCorrupt, hit |-> "pec", ret |-> FALSE]
NoProbe == [kind |-> "none"]
\* No BuildDischargeConfig yet.  used: the register indices the switch
\* accessed, in order; masks: the DCCx values it stored; write and read:
\* the bools WriteConfigRegisterGroup and ReadConfigRegisterGroup returned;
\* returned: what the call handed back to its caller.
NoBuild == [done |-> FALSE, used |-> << >>, masks |-> << >>,
            write |-> FALSE, read |-> FALSE, returned |-> "none"]

\* The constructor: commands built, slave_cfg_tx filled with
\* { 0xFE, 0, 0, 0, 0, 0 } (the PEC of the fill value is value-initialised),
\* WakeFromSleep performed.  discharge_mode has its member initialiser; the
\* register buffers the constructor does not touch hold the words w.
LTC6811(mode, dcp, cell, aux, sts, w) ==
    [ADCV |-> BuildADCV(mode, dcp, cell),
     ADAX |-> BuildADAX(mode, aux),
     ADSTAT |-> BuildADSTAT(mode, sts),
     discharge_mode |-> "GTMinPlusDelta",
     slave_cfg_tx |-> [d \in Devices |->
                          [data |-> << \HFE, 0, 0, 0, 0, 0 >>, PEC |-> 0]],
     slave_cfg_rx |-> [d \in Devices |->
                          [data |-> << Lo(w), Lo(w), Lo(w), Lo(w), Lo(w), Lo(w) >>,
                           PEC |-> w]],
     cell_data |-> [g \in Groups |-> [d \in Devices |->
                          [data |-> << w, w, w >>, PEC |-> w]]],
     status_registers |-> [g \in 0 .. 1 |-> [d \in Devices |->
                          [data |-> << Lo(w), Lo(w), Lo(w), Lo(w), Lo(w), Lo(w) >>,
                           PEC |-> w]]],
     bus |-> WakeFromSleep,
     cs |-> LastSelect(WakeFromSleep, "SET")]

Constructed(c) ==
    /\ ADCV = c.ADCV
    /\ ADAX = c.ADAX
    /\ ADSTAT = c.ADSTAT
    /\ discharge_mode = c.discharge_mode
    /\ slave_cfg_tx = c.slave_cfg_tx
    /\ slave_cfg_rx = c.slave_cfg_rx
    /\ cell_data = c.cell_data
    /\ status_registers = c.status_registers
    /\ bus = c.bus
    /\ cs = c.cs
    /\ pc = "idle"
    /\ group = 0
    /\ read_results = [op |-> "none", rets |-> << >>]
    /\ voltage_status = NoVoltageStatus
    /\ temp_status = NoTempStatus
    /\ last_read = NoRead
    /\ calls = [status |-> 0, build |-> 0, read |-> 0, wire |-> 0]
    /\ built = NoBuild
    /\ scanned = << >>

PoweredChain(p, line) ==
    [cells |-> p,
     cfg |-> [d \in Devices |-> Held8(<< \HF8, 0, 0, 0, 0, 0 >>)],
     stat |-> [g \in 0 .. 1 |-> [d \in Devices |->
                  Held8(<< 0, 0, 0, 0, 0, 0 >>)]],
     landed |-> [d \in Devices |-> << >>],
     line |-> line]

\* The driver constructed with its default arguments over a chain whose
\* devices hold one of the packs.
InitOn(line) ==
    /\ \E w \in UninitWords : Constructed(LTC6811(Normal, 0, 0, 0, 0, w))
    /\ \E p \in Packs : chain = PoweredChain(p, line)
    /\ probe = NoProbe

\* A line on which frames can arrive corrupted and one on which the
\* transport calls can fail as well.
Init == InitOn("pec")

(***************************************************************************)
(* Public operations                                                       *)
(***************************************************************************)
driver == << ADCV, ADAX, ADSTAT, discharge_mode, slave_cfg_tx, slave_cfg_rx,
             cell_data, status_registers >>

\* The images the chain shifts out in answer to a read command.
ChainImages(command, corrupt, hit) ==
    IF command = slave_cfg_rx_command THEN CfgImages(chain.cfg, corrupt, hit)
    ELSE IF \E g \in 0 .. 1 : status_registers_command[g] = command
    THEN LET g == CHOOSE g \in 0 .. 1 : status_registers_command[g] = command
         IN  CfgImages(chain.stat[g], corrupt, hit)
    ELSE LET g == CHOOSE g \in Groups : cell_data_command[g] = command
         IN  CellImages(chain.cells[g], corrupt, hit)

ReadInput(command, o) ==
    [tx |-> o.tx, rx |-> o.rx, wrote |-> o.wrote,
     received |-> ChainImages(command, o.corrupt, o.hit)]

ReadRecord(op, g, command, o, ret) ==
    [op |-> op, group |-> g, command |-> command, tx |-> o.tx, rx |-> o.rx,
     wrote |-> o.wrote, corrupt |-> o.corrupt, hit |-> o.hit, ret |-> ret]

\* ReadVoltageRegisterGroup(group) and ReadAuxRegisterGroup(group) both go
\* through cell_data[group]: its command is transmitted, its buffer filled.
ReadVoltageRegisterGroupCommand(g) == cell_data_command[g]
ReadAuxRegisterGroupCommand(g) == cell_data_command[g]

SetDischargeMode(mode) ==
    /\ pc = "idle"
    /\ mode # discharge_mode
    /\ discharge_mode' = mode
    /\ UNCHANGED << status_registers, ADCV, ADAX, ADSTAT, slave_cfg_tx, slave_cfg_rx, cell_data,
                    cs, bus, chain, pc, group, read_results, voltage_status,
                    temp_status, last_read, calls, probe,
                    built, scanned >>

\* GetVoltageStatus up to its read loop: StartConversion(ADCV).
GetVoltageStatus ==
    /\ pc = "idle"
    /\ calls.status < MaxCalls
    /\ calls' = [calls EXCEPT !.status = @ + 1]
    /\ bus' = StartConversion(ADCV)
    /\ cs' = LastSelect(StartConversion(ADCV), cs)
    /\ pc' = "GetVoltageStatus"
    /\ group' = 0
    /\ read_results' = [op |-> "GetVoltageStatus", rets |-> << >>]
    /\ UNCHANGED << driver, chain, voltage_status, temp_status, last_read, probe,
                    built, scanned >>

\* One pass of the read loop of GetVoltageStatus; after the pass for group
\* D the scan and the return.
GetVoltageStatusRead ==
    /\ pc = "GetVoltageStatus"
    /\ \E o \in ReadOutcomes(chain.line, Corruptible) :
          LET command == ReadVoltageRegisterGroupCommand(group)
              r == ReadRegisterGroup(cell_data[group], "uint16_t", ReadInput(command, o))
              cd == [cell_data EXCEPT ![group] = r.buf]
          IN  /\ cell_data' = cd
              /\ bus' = ReadEvents(command, o.tx)
              /\ cs' = LastSelect(ReadEvents(command, o.tx), cs)
              /\ read_results' = [read_results EXCEPT !.rets = Append(@, r.ret)]
              /\ IF ~r.ret
                 THEN /\ voltage_status' = NoVoltageStatus
                      /\ scanned' = scanned
                      /\ pc' = "idle"
                      /\ group' = group
                 ELSE IF group = 3
                 THEN /\ voltage_status' = [has |-> TRUE, status |-> VoltageScan(cd)]
                      /\ scanned' = cd
                      /\ pc' = "idle"
                      /\ group' = group
                 ELSE /\ voltage_status' = voltage_status
                      /\ scanned' = scanned
                      /\ pc' = pc
                      /\ group' = group + 1
    /\ UNCHANGED << ADCV, ADAX, ADSTAT, discharge_mode, slave_cfg_tx,
                    slave_cfg_rx, status_registers, chain, temp_status,
                    last_read, calls, built, probe >>

\* GetTemperatureStatus up to its read loop: StartConversion(ADAX).
GetTemperatureStatus ==
    /\ pc = "idle"
    /\ calls.status < MaxCalls
    /\ calls' = [calls EXCEPT !.status = @ + 1]
    /\ bus' = StartConversion(ADAX)
    /\ cs' = LastSelect(StartConversion(ADAX), cs)
    /\ pc' = "GetTemperatureStatus"
    /\ group' = 0
    /\ read_results' = [op |-> "GetTemperatureStatus", rets |-> << >>]
    /\ UNCHANGED << driver, chain, voltage_status, temp_status, last_read, probe,
                    built, scanned >>

\* One pass of the read loop of GetTemperatureStatus; after the pass for
\* group D the scan of cell_data and the return.
GetTemperatureStatusRead ==
    /\ pc = "GetTemperatureStatus"
    /\ \E o \in ReadOutcomes(chain.line, Corruptible), nan \in NaNResults :
          LET command == ReadAuxRegisterGroupCommand(group)
              r == ReadRegisterGroup(cell_data[group], "uint16_t", ReadInput(command, o))
              cd == [cell_data EXCEPT ![group] = r.buf]
          IN  /\ cell_data' = cd
              /\ bus' = ReadEvents(command, o.tx)
              /\ cs' = LastSelect(ReadEvents(command, o.tx), cs)
              /\ read_results' = [read_results EXCEPT !.rets = Append(@, r.ret)]
              /\ IF ~r.ret
                 THEN /\ temp_status' = NoTempStatus
                      /\ pc' = "idle"
                      /\ group' = group
                 ELSE IF group = 3
                 THEN /\ temp_status' = [has |-> TRUE,
                                         status |-> TemperatureScan(cd, nan)]
                      /\ pc' = "idle"
                      /\ group' = group
                 ELSE /\ temp_status' = temp_status
                      /\ pc' = pc
                      /\ group' = group + 1
    /\ UNCHANGED << status_registers, ADCV, ADAX, ADSTAT, discharge_mode, slave_cfg_tx,
                    slave_cfg_rx, chain, voltage_status, last_read, calls, probe,
                    built, scanned >>

\* BuildDischargeConfig(voltage_status) up to the settle delay: the switch
\* over discharge_mode and WriteConfigRegisterGroup, whose result is
\* dropped.  The caller passes the status the latest GetVoltageStatus gave.
BuildDischargeConfig ==
    /\ pc = "idle"
    /\ calls.build < MaxBuilds
    /\ voltage_status.has
    /\ calls' = [calls EXCEPT !.build = @ + 1]
    /\ \E oob \in OobData, tx \in LineStatus(chain.line) :
          LET staged == StageDischarge(discharge_mode, slave_cfg_tx, cell_data,
                                       voltage_status.status, oob)
              cfg == staged.cfg
              events == WriteEvents(slave_cfg_tx_command, cfg)
          IN  /\ slave_cfg_tx' = cfg
              /\ bus' = events
              /\ cs' = LastSelect(events, cs)
              /\ chain' = AfterWrite(chain, WriteStream(slave_cfg_tx_command, cfg), tx)
              /\ last_read' = [NoRead EXCEPT !.op = "WriteConfigRegisterGroup",
                                             !.command = slave_cfg_tx_command,
                                             !.tx = tx,
                                             !.ret = WriteRegisterGroup(tx)]
              /\ built' = [NoBuild EXCEPT !.used = staged.used,
                                          !.masks = staged.masks,
                                          !.write = WriteRegisterGroup(tx)]
    /\ pc' = "BuildDischargeConfig"
    /\ UNCHANGED << ADCV, ADAX, ADSTAT, discharge_mode, slave_cfg_rx, cell_data,
                    status_registers, group, read_results, voltage_status,
                    temp_status, scanned, probe >>

\* The rest of BuildDischargeConfig: DWT_Delay(500) and
\* ReadConfigRegisterGroup, whose result is dropped; the function returns
\* void.  bus holds the events of the whole call.
BuildDischargeConfigReadBack ==
    /\ pc = "BuildDischargeConfig"
    /\ \E o \in ReadOutcomes(chain.line, Corruptible) :
          LET r == ReadRegisterGroup(slave_cfg_rx, "uint8_t",
                                     ReadInput(slave_cfg_rx_command, o))
              events == << EvDelay(500) >> \o ReadEvents(slave_cfg_rx_command, o.tx)
          IN  /\ slave_cfg_rx' = r.buf
              /\ bus' = bus \o events
              /\ cs' = LastSelect(events, cs)
              /\ last_read' = ReadRecord("ReadConfigRegisterGroup", 0,
                                         slave_cfg_rx_command, o, r.ret)
              /\ built' = [built EXCEPT !.done = TRUE, !.read = r.ret,
                                        !.returned = "void"]
    /\ pc' = "idle"
    /\ UNCHANGED << ADCV, ADAX, ADSTAT, discharge_mode, slave_cfg_tx, cell_data,
                    status_registers, chain, group, read_results,
                    voltage_status, temp_status, calls, scanned, probe >>

\* The public register-group reads.
ReadVoltageRegisterGroup(g) ==
    /\ pc = "idle"
    /\ calls.read < MaxReads
    /\ calls' = [calls EXCEPT !.read = @ + 1]
    /\ \E o \in ReadOutcomes(chain.line, Corruptible) :
          LET command == ReadVoltageRegisterGroupCommand(g)
              r == ReadRegisterGroup(cell_data[g], "uint16_t",
                                     ReadInput(command, o))
          IN  /\ cell_data' = [cell_data EXCEPT ![g] = r.buf]
              /\ bus' = ReadEvents(command, o.tx)
              /\ cs' = LastSelect(ReadEvents(command, o.tx), cs)
              /\ last_read' = ReadRecord("ReadVoltageRegisterGroup", g,
                                         command, o, r.ret)
    /\ UNCHANGED << status_registers, ADCV, ADAX, ADSTAT, discharge_mode, slave_cfg_tx,
                    slave_cfg_rx, chain, pc, group, read_results,
                    voltage_status, temp_status, probe,
                    built, scanned >>

ReadAuxRegisterGroup(g) ==
    /\ pc = "idle"
    /\ calls.read < MaxReads
    /\ calls' = [calls EXCEPT !.read = @ + 1]
    /\ \E o \in ReadOutcomes(chain.line, Corruptible) :
          LET command == ReadAuxRegisterGroupCommand(g)
              r == ReadRegisterGroup(cell_data[g], "uint16_t",
                                     ReadInput(command, o))
          IN  /\ cell_data' = [cell_data EXCEPT ![g] = r.buf]
              /\ bus' = ReadEvents(command, o.tx)
              /\ cs' = LastSelect(ReadEvents(command, o.tx), cs)
              /\ last_read' = ReadRecord("ReadAuxRegisterGroup", g,
                                         command, o, r.ret)
    /\ UNCHANGED << status_registers, ADCV, ADAX, ADSTAT, discharge_mode, slave_cfg_tx,
                    slave_cfg_rx, chain, pc, group, read_results,
                    voltage_status, temp_status, probe,
                    built, scanned >>

ReadConfigRegisterGroup ==
    /\ pc = "idle"
    /\ calls.read < MaxReads
    /\ calls' = [calls EXCEPT !.read = @ + 1]
    /\ \E o \in ReadOutcomes(chain.line, Corruptible) :
          LET r == ReadRegisterGroup(slave_cfg_rx, "uint8_t",
                                     ReadInput(slave_cfg_rx_command, o))
          IN  /\ slave_cfg_rx' = r.buf
              /\ bus' = ReadEvents(slave_cfg_rx_command, o.tx)
              /\ cs' = LastSelect(ReadEvents(slave_cfg_rx_command, o.tx), cs)
              /\ last_read' = ReadRecord("ReadConfigRegisterGroup", 0,
                                         slave_cfg_rx_command, o, r.ret)
    /\ UNCHANGED << status_registers, ADCV, ADAX, ADSTAT, discharge_mode, slave_cfg_tx, cell_data,
                    chain, pc, group, read_results, voltage_status,
                    temp_status, probe,
                    built, scanned >>

\* ReadStatusRegisterGroup(group): ReadRegisterGroup(status_registers[group]).
\* status_registers has two elements; with group C or D the element lies
\* past the array: the command transmitted is whatever lies there (in the
\* member order of the class, the conversion commands follow the array),
\* the bytes received land on what follows it, and the PEC comparison is
\* made on those bytes.
Overwritten == << 255, 255, 255, 255 >>

ReadStatusRegisterGroup(g) ==
    /\ pc = "idle"
    /\ calls.read < MaxReads
    /\ calls' = [calls EXCEPT !.read = @ + 1]
    /\ \E o \in ReadOutcomes(chain.line, Corruptible) :
          IF g \in DOMAIN status_registers
          THEN LET command == status_registers_command[g]
                   r == ReadRegisterGroup(status_registers[g], "uint8_t",
                                          ReadInput(command, o))
               IN  /\ status_registers' = [status_registers EXCEPT ![g] = r.buf]
                   /\ bus' = ReadEvents(command, o.tx)
                   /\ cs' = LastSelect(ReadEvents(command, o.tx), cs)
                   /\ last_read' = ReadRecord("ReadStatusRegisterGroup", g,
                                              command, o, r.ret)
                   /\ UNCHANGED << ADAX, ADSTAT >>
          ELSE \E command \in {ADCV, << 0, 0, 0, 0 >>}, hits \in BOOLEAN,
                  ret \in BOOLEAN :
                   /\ o.corrupt = NoCorrupt
                   /\ status_registers' = status_registers
                   /\ bus' = ReadEvents(command, o.tx)
                   /\ cs' = LastSelect(ReadEvents(command, o.tx), cs)
                   /\ last_read' = ReadRecord("ReadStatusRegisterGroup", g,
                                              command, o, ret)
                   /\ ADAX' = IF hits /\ o.wrote THEN Overwritten ELSE ADAX
                   /\ ADSTAT' = IF hits /\ o.wrote THEN Overwritten ELSE ADSTAT
    /\ UNCHANGED << ADCV, discharge_mode, slave_cfg_tx, slave_cfg_rx, cell_data,
                    chain, pc, group, read_results, voltage_status,
                    temp_status, built, scanned, probe >>

\* WriteConfigRegisterGroup(): WriteRegisterGroup(slave_cfg_tx).
WriteConfigRegisterGroup ==
    /\ pc = "idle"
    /\ calls.wire < MaxWire
    /\ calls' = [calls EXCEPT !.wire = @ + 1]
    /\ \E tx \in LineStatus(chain.line) :
          LET events == WriteEvents(slave_cfg_tx_command, slave_cfg_tx)
          IN  /\ bus' = events
              /\ cs' = LastSelect(events, cs)
              /\ chain' = AfterWrite(chain,
                                     WriteStream(slave_cfg_tx_command, slave_cfg_tx),
                                     tx)
              /\ last_read' = [NoRead EXCEPT !.op = "WriteConfigRegisterGroup",
                                             !.command = slave_cfg_tx_command,
                                             !.tx = tx,
                                             !.ret = WriteRegisterGroup(tx)]
    /\ UNCHANGED << driver, pc, group, read_results, voltage_status,
                    temp_status, built, scanned, probe >>

\* WakeFromIdle, then the command under one select pulse.
ClearEvents(command) ==
    WakeFromIdle \o
    << EvSelect("RESET"), EvTransmit(command), EvSelect("SET") >>

\* The registers a clear command leaves in the devices: all bits set.
ClearVoltageRegisters ==
    /\ pc = "idle"
    /\ calls.wire < MaxWire
    /\ calls' = [calls EXCEPT !.wire = @ + 1]
    /\ bus' = ClearEvents(ClearVoltageRegistersCommand)
    /\ cs' = LastSelect(ClearEvents(ClearVoltageRegistersCommand), cs)
    /\ \E tx \in LineStatus(chain.line) :
          chain' = IF tx = "HAL_OK"
                   THEN [chain EXCEPT !.cells = 
                             [g \in Groups |-> [d \in Devices |->
                                 Held16(<< 65535, 65535, 65535 >>)]]]
                   ELSE chain
    /\ last_read' = [NoRead EXCEPT !.op = "ClearVoltageRegisters",
                                   !.command = ClearVoltageRegistersCommand]
    /\ UNCHANGED << driver, pc, group, read_results, voltage_status,
                    temp_status, built, scanned, probe >>

\* The auxiliary registers of the devices are not read by any command the
\* driver transmits; the chain keeps no copy of them.
ClearAuxRegisters ==
    /\ pc = "idle"
    /\ calls.wire < MaxWire
    /\ calls' = [calls EXCEPT !.wire = @ + 1]
    /\ bus' = ClearEvents(ClearAuxRegistersCommand)
    /\ cs' = LastSelect(ClearEvents(ClearAuxRegistersCommand), cs)
    /\ last_read' = [NoRead EXCEPT !.op = "ClearAuxRegisters",
                                   !.command = ClearAuxRegistersCommand]
    /\ UNCHANGED << driver, chain, pc, group, read_results, voltage_status,
                    temp_status, built, scanned, probe >>

\* The two wake procedures called by the user of the driver.
CallWakeFromSleep ==
    /\ pc = "idle"
    /\ calls.wire < MaxWire
    /\ calls' = [calls EXCEPT !.wire = @ + 1]
    /\ bus' = WakeFromSleep
    /\ cs' = LastSelect(WakeFromSleep, cs)
    /\ last_read' = [NoRead EXCEPT !.op = "WakeFromSleep"]
    /\ UNCHANGED << driver, chain, pc, group, read_results, voltage_status,
                    temp_status, built, scanned, probe >>

CallWakeFromIdle ==
    /\ pc = "idle"
    /\ calls.wire < MaxWire
    /\ calls' = [calls EXCEPT !.wire = @ + 1]
    /\ bus' = WakeFromIdle
    /\ cs' = LastSelect(WakeFromIdle, cs)
    /\ last_read' = [NoRead EXCEPT !.op = "WakeFromIdle"]
    /\ UNCHANGED << driver, chain, pc, group, read_results, voltage_status,
                    temp_status, built, scanned, probe >>

(***************************************************************************)
(* Specifications                                                          *)
(***************************************************************************)
\* Polling and balancing: GetVoltageStatus, SetDischargeMode and
\* BuildDischargeConfig.
Next ==
    \/ \E mode \in DischargeModes : SetDischargeMode(mode)
    \/ GetVoltageStatus
    \/ GetVoltageStatusRead
    \/ BuildDischargeConfig
    \/ BuildDischargeConfigReadBack

Spec == Init /\ [][Next]_vars

\* The two status reports.
NextStatus ==
    \/ GetVoltageStatus
    \/ GetVoltageStatusRead
    \/ GetTemperatureStatus
    \/ GetTemperatureStatusRead

SpecStatus == Init /\ [][NextStatus]_vars

\* The public register-group reads.
NextRead ==
    \/ \E g \in Groups : ReadVoltageRegisterGroup(g)
    \/ \E g \in Groups : ReadAuxRegisterGroup(g)
    \/ ReadConfigRegisterGroup

SpecRead == InitOn("any") /\ [][NextRead]_vars

\* Every public operation that starts a bus transaction or a wake
\* procedure, on one chain.
InitBus ==
    /\ \E w \in UninitWords : Constructed(LTC6811(Normal, 0, 0, 0, 0, w))
    /\ chain = PoweredChain(FlatPack, "pec")
    /\ probe = NoProbe

NextBus ==
    \/ GetVoltageStatus
    \/ GetVoltageStatusRead
    \/ GetTemperatureStatus
    \/ GetTemperatureStatusRead
    \/ NextRead
    \/ \E g \in Groups : ReadStatusRegisterGroup(g)
    \/ WriteConfigRegisterGroup
    \/ ClearVoltageRegisters
    \/ ClearAuxRegisters
    \/ CallWakeFromSleep
    \/ CallWakeFromIdle

SpecBus == InitBus /\ [][NextBus]_vars

\* A status report followed by other public reads and the balancing
\* decision, on a line where a data bit of a frame can arrive inverted.
InitKeep ==
    /\ Constructed(LTC6811(Normal, 0, 0, 0, 0, 0))
    /\ chain = PoweredChain(HighCellPack, "data")
    /\ probe = NoProbe

NextKeep ==
    \/ GetVoltageStatus
    \/ GetVoltageStatusRead
    \/ GetTemperatureStatus
    \/ GetTemperatureStatusRead
    \/ \E g \in Groups : ReadVoltageRegisterGroup(g)
    \/ \E g \in Groups : ReadAuxRegisterGroup(g)
    \/ BuildDischargeConfig
    \/ BuildDischargeConfigReadBack

SpecKeep == InitKeep /\ [][NextKeep]_vars

(***************************************************************************)
(* The command builder on its own: every constructor argument              *)
(***************************************************************************)
InitCmd ==
    /\ Constructed(LTC6811(Normal, 0, 0, 0, 0, 0))
    /\ chain = PoweredChain(FlatPack, "pec")
    /\ \E mode \in Modes, dcp \in DCPs, cell \in CellChs, aux \in AuxChs,
          sts \in STSChs :
          probe = [kind |-> "ctor", done |-> FALSE, mode |-> mode, dcp |-> dcp,
                   cell |-> cell, aux |-> aux, sts |-> sts]

\* LTC6811(hspi, mode, dcp, cell, aux, sts)
Construct ==
    /\ probe.kind = "ctor"
    /\ ~probe.done
    /\ LET c == LTC6811(probe.mode, probe.dcp, probe.cell, probe.aux,
                        probe.sts, 0)
       IN  /\ ADCV' = c.ADCV
           /\ ADAX' = c.ADAX
           /\ ADSTAT' = c.ADSTAT
           /\ discharge_mode' = c.discharge_mode
           /\ slave_cfg_tx' = c.slave_cfg_tx
           /\ slave_cfg_rx' = c.slave_cfg_rx
           /\ cell_data' = c.cell_data
           /\ status_registers' = c.status_registers
           /\ bus' = c.bus
           /\ cs' = c.cs
    /\ probe' = [probe EXCEPT !.done = TRUE]
    /\ UNCHANGED << chain, pc, group, read_results, voltage_status,
                    temp_status, last_read, calls,
                    built, scanned >>

SpecCmd == InitCmd /\ [][Construct]_vars

(***************************************************************************)
(* The codec on its own: a register payload framed with its PEC, put on    *)
(* the line as device dev's register and validated by ReadRegisterGroup,   *)
(* once as framed and once with one payload bit inverted.                  *)
(***************************************************************************)
Payloads == [1 .. 6 -> {0, 255}]

\* The payload with bit b (0 .. 47, bit 0 the least significant bit of
\* byte 0) inverted.
FlipBit(d, b) ==
    [k \in 1 .. 6 |-> IF k = (b \div 8) + 1 THEN BitXor(d[k], Pow2(b % 8)) ELSE d[k]]

InitPec ==
    /\ Constructed(LTC6811(Normal, 0, 0, 0, 0, 0))
    /\ chain = PoweredChain(FlatPack, "pec")
    /\ \E d \in Payloads, b \in 0 .. 47, dev \in {0, kDaisyChainLength - 1} :
          probe = [kind |-> "pec", done |-> FALSE, d |-> d, bit |-> b,
                   dev |-> dev, accepted |-> FALSE, flipped_accepted |-> FALSE]

\* The frames of a configuration read in which device dev holds payload.
FramesWith(dev, frame) ==
    [k \in Devices |-> IF k = dev THEN Image8(frame) ELSE Image8(chain.cfg[k])]

Validate ==
    /\ probe.kind = "pec"
    /\ ~probe.done
    /\ LET frame == WithPEC8([data |-> probe.d, PEC |-> 0])
           hit == [frame EXCEPT !.data = FlipBit(probe.d, probe.bit)]
           good == ReadRegisterGroup(slave_cfg_rx, "uint8_t",
                       [tx |-> "HAL_OK", rx |-> "HAL_OK", wrote |-> TRUE,
                        received |-> FramesWith(probe.dev, frame)])
           bad  == ReadRegisterGroup(slave_cfg_rx, "uint8_t",
                       [tx |-> "HAL_OK", rx |-> "HAL_OK", wrote |-> TRUE,
                        received |-> FramesWith(probe.dev, hit)])
       IN  probe' = [probe EXCEPT !.done = TRUE,
                                  !.accepted = ~good.ret,
                                  !.flipped_accepted = ~bad.ret]
    /\ UNCHANGED << driver, cs, bus, chain, pc, group, read_results,
                    voltage_status, temp_status, last_read, calls,
                    built, scanned >>

SpecPec == InitPec /\ [][Validate]_vars

(***************************************************************************)
(* Properties                                                              *)
(***************************************************************************)
\* A status call has returned and nothing has been started since.
Returned(op) == pc = "idle" /\ read_results.op = op /\ read_results.rets # << >>

\* The optional the latest status call returned.
ReturnedOptional ==
    IF read_results.op = "GetVoltageStatus" THEN voltage_status.has
    ELSE temp_status.has

\* C1: GetVoltageStatus and GetTemperatureStatus return a status exactly
\* when all four register-group reads reported success (returned 0); a read
\* that reports failure (returns 1) ends the call with no result and no
\* further read.
C1_StatusIffAllReadsSucceeded ==
    (Returned("GetVoltageStatus") \/ Returned("GetTemperatureStatus")) =>
        /\ ReturnedOptional <=>
              (Len(read_results.rets) = 4
               /\ \A i \in 1 .. 4 : read_results.rets[i] = FALSE)
        /\ \A i \in 1 .. Len(read_results.rets) :
              read_results.rets[i] = TRUE => i = Len(read_results.rets)

\* The register buffer a read command fills.
BufferOf(command) ==
    IF command = slave_cfg_rx_command THEN slave_cfg_rx
    ELSE cell_data[CHOOSE g \in Groups : cell_data_command[g] = command]

BufferMatches(command) ==
    IF command = slave_cfg_rx_command
    THEN \A d \in Devices : slave_cfg_rx[d].PEC =
                               PEC15Calc(DataBytes8(slave_cfg_rx[d].data), 6)
    ELSE \A d \in Devices :
            BufferOf(command)[d].PEC =
                PEC15Calc(DataBytes16(BufferOf(command)[d].data), 6)

\* C2: ReadRegisterGroup reports success (returns 0) only when the command
\* transmit and the receive both completed with HAL_OK and every received
\* register's PEC equals pec15 of its 6 data bytes; with any other
\* transport status (HAL_ERROR, HAL_BUSY, HAL_TIMEOUT) or a mismatching
\* register it reports failure.
C2_ReadSucceedsIffTransportOkAndPecsMatch ==
    last_read.op \in {"ReadVoltageRegisterGroup", "ReadAuxRegisterGroup",
                      "ReadConfigRegisterGroup"} =>
        (last_read.ret = FALSE <=>
            /\ last_read.tx = "HAL_OK"
            /\ last_read.rx = "HAL_OK"
            /\ BufferMatches(last_read.command))

\* BuildDischargeConfig has staged its masks for the first time since
\* construction, under the given policy.
FirstBuildStaged(mode) ==
    pc = "BuildDischargeConfig" /\ calls.build = 1 /\ discharge_mode = mode

\* C3: above-min-plus-delta policy on a freshly constructed driver: bit c
\* of the mask of configuration register i is set exactly when cell c
\* (group c div 3, position c mod 3) of the device register i addresses
\* under the chain reversal, device N-1-i for all four groups, reads above
\* min + 100.
C3_MinPlusDeltaMaskPerDevice ==
    FirstBuildStaged("GTMinPlusDelta") =>
        \A i \in Devices, c \in 0 .. 11 :
            Bit(MaskOf(slave_cfg_tx[i]), c) = 1 <=>
                cell_data[c \div 3][kDaisyChainLength - 1 - i].data[(c % 3) + 1]
                    > voltage_status.status.min + 100

\* C4: max-only policy: when max - min > delta, exactly one discharge bit
\* is set across all configuration registers, in the register of the
\* device the maximum was read from and at bit 3 * group + position of the
\* cell max_id names.
C4_MaxOnlySetsTheMaxCellBit ==
    (/\ FirstBuildStaged("MaxOnly")
     /\ voltage_status.status.max - voltage_status.status.min > kDelta) =>
        LET id == voltage_status.status.max_id
            g == id \div CellsPerGroup
            d == (id \div 3) % kDaisyChainLength
            p == id % 3
        IN  \A i \in Devices, c \in 0 .. 11 :
                Bit(MaskOf(slave_cfg_tx[i]), c) = 1 <=> (i = d /\ c = 3 * g + p)

\* The reading the scan reaches as its id-th, cells being numbered group
\* by group, device by device, position by position.
ReadingAt(id) ==
    cell_data[id \div CellsPerGroup][(id \div 3) % kDaisyChainLength]
        .data[(id % 3) + 1]

\* The reading a numbering with the devices innermost gives the id-th place.
ReadingAtDeviceInner(id) ==
    cell_data[id \div CellsPerGroup][id % kDaisyChainLength]
        .data[((id \div kDaisyChainLength) % 3) + 1]

CellIds == 0 .. TotalCells - 1

RECURSIVE SumOfReadings(_)
SumOfReadings(n) == IF n = 0 THEN 0 ELSE ReadingAt(n - 1) + SumOfReadings(n - 1)

SmallestReading ==
    CHOOSE v \in {ReadingAt(i) : i \in CellIds} :
        \A j \in CellIds : v <= ReadingAt(j)

LargestReading ==
    CHOOSE v \in {ReadingAt(i) : i \in CellIds} :
        \A j \in CellIds : v >= ReadingAt(j)

FirstIdOf(v) ==
    CHOOSE i \in CellIds :
        ReadingAt(i) = v /\ \A j \in CellIds : j < i => ReadingAt(j) # v

\* GetVoltageStatus has returned a status and the buffers are as scanned.
VoltageReported == Returned("GetVoltageStatus") /\ voltage_status.has

\* C5: a GetVoltageStatus that returns a status returns sum = the total of
\* all 12 * N readings, min = the smallest reading and max = the largest
\* reading, whatever the buffers hold (a distinct first reading, rising and
\* falling ramps included).
C5_SumMinMaxAreTheTrueAggregates ==
    VoltageReported =>
        /\ voltage_status.status.sum = SumOfReadings(TotalCells)
        /\ voltage_status.status.min = SmallestReading
        /\ voltage_status.status.max = LargestReading

\* C6: a GetVoltageStatus that returns a status returns min_id = the first
\* index in scan order holding the minimum and max_id = the first index in
\* scan order holding the maximum, also when the extreme repeats.
C6_IdsAreFirstOccurrences ==
    VoltageReported =>
        /\ voltage_status.status.min_id = FirstIdOf(SmallestReading)
        /\ voltage_status.status.max_id = FirstIdOf(LargestReading)

\* C7 as stated: identities run group outermost, position in the middle,
\* device innermost, so the reading at (group g, position p, device d) has
\* identity g*3*N + p*N + d and min_id names the minimum under that
\* numbering.
C7_IdentityIsGroupPositionDevice ==
    VoltageReported =>
        ReadingAtDeviceInner(voltage_status.status.min_id) = voltage_status.status.min

\* C7 amended: identities run group outermost, device in the middle,
\* position innermost: the reading at (group g, device d, position p) has
\* identity g*3*N + d*3 + p.  The identity a status reports for an extreme
\* names, under that numbering, a reading equal to the extreme: min_id
\* always, max_id once the maximum has been raised, and likewise the
\* min_id of a temperature status.
C7_IdentityIsGroupDevicePosition ==
    /\ VoltageReported =>
          /\ ReadingAt(voltage_status.status.min_id) = voltage_status.status.min
          /\ voltage_status.status.max # 0 =>
                ReadingAt(voltage_status.status.max_id) = voltage_status.status.max
    /\ (/\ Returned("GetTemperatureStatus") /\ temp_status.has
        /\ temp_status.status.min # 32767
        /\ ReadingAt(temp_status.status.min_id) \in 0 .. 30000) =>
          steinharthart(ReadingAt(temp_status.status.min_id), 0)
              = temp_status.status.min

\* A status whose minimum is a cell below the base level, not the first one.
C7_Witness ==
    /\ VoltageReported
    /\ voltage_status.status.min < Base
    /\ voltage_status.status.min_id > 0
    /\ ReadingAtDeviceInner(voltage_status.status.min_id) # voltage_status.status.min

\* The 4-byte commands handed to the transport in the latest step.
TransmittedCommands ==
    {bus[k].bytes : k \in {j \in 1 .. Len(bus) :
                              bus[j].op = "transmit" /\ bus[j].n = kCommandLength}}

\* C8: every read GetTemperatureStatus issues after the auxiliary
\* conversion transmits the read command of an auxiliary register group
\* (a command of temp_data), never that of a cell-voltage group.
C8_TemperatureReadsAreAuxReads ==
    (read_results.op = "GetTemperatureStatus" /\ read_results.rets # << >>) =>
        TransmittedCommands \subseteq {temp_data_command[0], temp_data_command[1]}

\* C9: for every mode, discharge-permission flag and cell-channel selector
\* the constructor builds ADCV with byte 0 = 0x02 plus the high mode bit,
\* byte 1 = 0x60 | (low mode bit << 7) | (flag << 4) | selector, so that
\* mode, flag and selector can be read back from the opcode, and bytes 2-3
\* = pec15 of bytes 0-1, high byte first; ADAX (0x0460 | aux) and ADSTAT
\* (0x0468 | sts) place the mode bits and the PEC the same way.
C9_ConversionCommandLayout ==
    (probe.kind = "ctor" /\ probe.done) =>
        /\ ADCV[1] = 2 + (probe.mode \div 2)
        /\ ADCV[2] = 96 + 128 * (probe.mode % 2) + 16 * probe.dcp + probe.cell
        /\ probe.mode = 2 * (ADCV[1] % 2) + (ADCV[2] \div 128)
        /\ probe.dcp = (ADCV[2] \div 16) % 2
        /\ probe.cell = ADCV[2] % 16
        /\ ADAX[1] = 4 + (probe.mode \div 2)
        /\ ADAX[2] = 96 + 128 * (probe.mode % 2) + probe.aux
        /\ ADSTAT[1] = 4 + (probe.mode \div 2)
        /\ ADSTAT[2] = 104 + 128 * (probe.mode % 2) + probe.sts
        /\ \A cmd \in {ADCV, ADAX, ADSTAT} :
              /\ Len(cmd) = kCommandLength
              /\ 256 * cmd[3] + cmd[4] = PEC15Calc(<< cmd[1], cmd[2] >>, 2)

\* A driver built in Filtered mode with discharge permitted and the last
\* cell channel.
C9_Witness ==
    /\ probe.kind = "ctor" /\ probe.done
    /\ probe.mode = Filtered /\ probe.dcp = 1 /\ probe.cell = 6

\* C10: a register framed with pec15 of its 6 payload bytes passes the
\* validation of ReadRegisterGroup, and with any single payload bit
\* inverted its pec15 differs, so the validation fails.
C10_PecRoundTripAndSingleBitErrors ==
    (probe.kind = "pec" /\ probe.done) =>
        /\ probe.accepted
        /\ ~probe.flipped_accepted
        /\ PEC15Calc(FlipBit(probe.d, probe.bit), 6) # PEC15Calc(probe.d, 6)

\* A non-zero payload validated with a bit of its last byte inverted.
C10_Witness ==
    /\ probe.kind = "pec" /\ probe.done
    /\ probe.bit >= 40
    /\ probe.d[1] = 255

\* C11: every fixed command literal of the driver (configuration write and
\* read, cell-voltage reads A-D, auxiliary reads A-B, status reads A-B,
\* clear-cell-voltage, clear-auxiliary) carries its own PEC, bytes 2-3 =
\* pec15 of bytes 0-1 with the high byte first, and so does the command a
\* register-group or clear operation has put on the bus from them (an
\* operation that took its command from a register group that exists).
C11_CommandLiteralsCarryTheirPec ==
    LET CommandLiterals ==
            {slave_cfg_tx_command, slave_cfg_rx_command,
             ClearVoltageRegistersCommand, ClearAuxRegistersCommand} \cup
            {cell_data_command[g] : g \in DOMAIN cell_data_command} \cup
            {temp_data_command[g] : g \in DOMAIN temp_data_command} \cup
            {status_registers_command[g] : g \in DOMAIN status_registers_command}
        ValidCommand(c) ==
            /\ Len(c) = kCommandLength
            /\ c[3] = PEC15Calc(<< c[1], c[2] >>, 2) \div 256
            /\ c[4] = PEC15Calc(<< c[1], c[2] >>, 2) % 256
        CommandsOnBus ==
            {SubSeq(bus[k].bytes, 1, kCommandLength) :
                k \in {j \in 1 .. Len(bus) :
                          bus[j].op = "transmit" /\ bus[j].n >= kCommandLength}}
        FromAGroupThatExists ==
            ~(last_read.op = "ReadStatusRegisterGroup"
              /\ last_read.group \notin DOMAIN status_registers)
    IN  /\ \A c \in CommandLiterals : ValidCommand(c)
        /\ (FromAGroupThatExists /\ last_read.command \in CommandsOnBus) =>
              (last_read.command \in CommandLiterals
               /\ ValidCommand(last_read.command))

\* The clear-auxiliary command has gone out on the bus.
C11_Witness ==
    /\ last_read.op = "ClearAuxRegisters"
    /\ ClearAuxRegistersCommand \in TransmittedCommands

\* The bytes of the transmits longer than a command in the latest step.
StreamsOnBus ==
    {bus[k].bytes : k \in {j \in 1 .. Len(bus) :
                              bus[j].op = "transmit" /\ bus[j].n > kCommandLength}}

\* Frame i (0 .. N-1) of a written byte stream.
FrameOf(stream, i) ==
    SubSeq(stream, kCommandLength + kBytesPerRegister * i + 1,
           kCommandLength + kBytesPerRegister * (i + 1))

\* C12: a write hands the transport the 4 command bytes followed by the N
\* 8-byte register frames in ascending software index, and in a chain
\* where each device passes earlier frames on, the frame of software index
\* i ends up in physical device N-1-i counted from the head (index 0 in
\* the last device).  Checked in the state BuildDischargeConfig is in
\* between its write and its read-back.
C12_WriteOrderAndReversal ==
    pc = "BuildDischargeConfig" =>
        /\ Cardinality(StreamsOnBus) = 1
        /\ \A stream \in StreamsOnBus :
              /\ Len(stream) = kCommandLength + kBytesPerRegister * kDaisyChainLength
              /\ SubSeq(stream, 1, kCommandLength) = slave_cfg_tx_command
              /\ \A i \in Devices : FrameOf(stream, i) = Image8(slave_cfg_tx[i])
        /\ \A i \in Devices :
              chain.landed[kDaisyChainLength - 1 - i] = Image8(slave_cfg_tx[i])

\* A write whose first and last frames differ has reached the chain.
C12_Witness ==
    /\ pc = "BuildDischargeConfig"
    /\ Image8(slave_cfg_tx[0]) # Image8(slave_cfg_tx[kDaisyChainLength - 1])
    /\ chain.landed[kDaisyChainLength - 1] = Image8(slave_cfg_tx[0])

\* The positions of the latest step's events at which a command starts.
CommandStarts ==
    {k \in 1 .. Len(bus) : bus[k].op = "transmit" /\ bus[k].n >= kCommandLength}

\* C13: in every register-group read, register-group write,
\* start-conversion and clear-registers operation the command is asserted
\* and transmitted only after a complete wake_from_idle of exactly N
\* cycles (assert, the single byte 0xFF, deassert), no command byte being
\* sent inside the wake; and the constructor has completed a
\* wake_from_sleep of N cycles (assert, 400 us, deassert, 10 us) and sent
\* nothing else before the first operation.
C13_WakeBeforeTransaction ==
    LET IdleWakeEndsBefore(k) ==
            /\ k > 3 * kDaisyChainLength
            /\ \A c \in 0 .. kDaisyChainLength - 1 :
                  LET at == k - 3 * kDaisyChainLength + 3 * c
                  IN  /\ bus[at] = EvSelect("RESET")
                      /\ bus[at + 1] = EvTransmit(<< 255 >>)
                      /\ bus[at + 2] = EvSelect("SET")
        SleepWakeOnly ==
            /\ Len(bus) = 4 * kDaisyChainLength
            /\ \A c \in 0 .. kDaisyChainLength - 1 :
                  /\ bus[4 * c + 1] = EvSelect("RESET")
                  /\ bus[4 * c + 2] = EvDelay(400)
                  /\ bus[4 * c + 3] = EvSelect("SET")
                  /\ bus[4 * c + 4] = EvDelay(10)
        JustConstructed ==
            /\ pc = "idle"
            /\ last_read = NoRead
            /\ calls = [status |-> 0, build |-> 0, read |-> 0, wire |-> 0]
    IN  /\ \A k \in CommandStarts :
              /\ k > 1
              /\ bus[k - 1] = EvSelect("RESET")
              /\ IdleWakeEndsBefore(k - 1)
              /\ \A j \in 1 .. k - 1 :
                    j \notin CommandStarts \/ k - j > 3 * kDaisyChainLength
        /\ JustConstructed => SleepWakeOnly

\* A configuration write has put its stream on the bus after the wake.
C13_Witness ==
    /\ last_read.op = "WriteConfigRegisterGroup"
    /\ StreamsOnBus # {}
    /\ \A k \in CommandStarts : k = 3 * kDaisyChainLength + 2

\* C14: BuildDischargeConfig issues the configuration write, then the
\* settle delay, then the confirmatory read, in that order; a failure of
\* the write or of the read is reported to the caller; and the staged
\* registers keep the bitmask just built.
C14_BuildReportsFailure ==
    LET WriteAt == {k \in CommandStarts : bus[k].n > kCommandLength}
        SettleAt == {k \in 1 .. Len(bus) : bus[k] = EvDelay(500)}
        ReadBackAt == {k \in CommandStarts : bus[k].bytes = slave_cfg_rx_command}
    IN  built.done =>
            /\ Cardinality(WriteAt) = 1 /\ Cardinality(SettleAt) = 1
            /\ Cardinality(ReadBackAt) = 1
            /\ \A w \in WriteAt, d \in SettleAt, r \in ReadBackAt : w < d /\ d < r
            /\ \A stream \in StreamsOnBus :
                  \A i \in Devices : FrameOf(stream, i) = Image8(slave_cfg_tx[i])
            /\ (built.write \/ built.read) => built.returned = "failure"

\* C15: the discharge mask is OR'd onto the staged configuration: across
\* a BuildDischargeConfig call under any policy, a bit set in bytes 4-5 of
\* a staged register before the call is still set after it, bytes 0-3 and
\* the upper nibble of byte 5 are unchanged, and every register whose
\* bytes were modified carries the pec15 of its 6 data bytes.
C15_MaskIsOrdNotOverwritten ==
    [][(pc = "idle" /\ pc' = "BuildDischargeConfig") =>
         \A d \in Devices :
            /\ BitAnd(MaskOf(slave_cfg_tx[d]), MaskOf(slave_cfg_tx'[d]))
                  = MaskOf(slave_cfg_tx[d])
            /\ \A k \in 1 .. 4 : slave_cfg_tx'[d].data[k] = slave_cfg_tx[d].data[k]
            /\ slave_cfg_tx'[d].data[6] \div 16 = slave_cfg_tx[d].data[6] \div 16
            /\ slave_cfg_tx'[d].data # slave_cfg_tx[d].data =>
                  slave_cfg_tx'[d].PEC = PEC15Calc(slave_cfg_tx'[d].data, 6)]_vars

\* C16: in every state in which the configuration group is transmitted,
\* by WriteConfigRegisterGroup called directly or from
\* BuildDischargeConfig, every one of the N staged registers carries a
\* PEC equal to the pec15 of its current 6 data bytes.
C16_StagedRegistersCarryTheirPec ==
    (StreamsOnBus # {} /\ last_read.op = "WriteConfigRegisterGroup") =>
        \A d \in Devices : slave_cfg_tx[d].PEC = PEC15Calc(slave_cfg_tx[d].data, 6)

\* C17: every device index BuildDischargeConfig uses to access a register
\* buffer (current_ic in the two threshold policies, the computed index in
\* max-only) is within 0 .. N-1, and every bit it sets is within
\* positions 0 .. 11.
C17_IndicesAndBitsInRange ==
    /\ \A k \in 1 .. Len(built.used) : built.used[k] \in Devices
    /\ \A k \in 1 .. Len(built.masks) : built.masks[k] \in 0 .. 4095

\* C18: for every Group value (A, B, C, D) ReadStatusRegisterGroup,
\* ReadAuxRegisterGroup and ReadVoltageRegisterGroup select a buffer that
\* exists: the group index is below the number of buffers of the array
\* it indexes.
C18_GroupSelectsAnExistingBuffer ==
    /\ last_read.op = "ReadStatusRegisterGroup" =>
          last_read.group \in DOMAIN status_registers
    /\ last_read.op \in {"ReadVoltageRegisterGroup", "ReadAuxRegisterGroup"} =>
          last_read.group \in DOMAIN cell_data

\* C19: whenever a public operation has returned, with success or
\* failure, the bus-select line is deasserted.
C19_SelectDeassertedOnReturn == pc = "idle" => cs = "SET"

\* C20: the per-cell readings BuildDischargeConfig compares against the
\* threshold are the readings from which the VoltageStatus passed to it
\* was computed: whatever public reads, failed ones included, came between
\* the GetVoltageStatus that produced the status and the call, the voltage
\* buffers still hold those readings.
C20_DecisionScansTheStatusReadings ==
    pc = "BuildDischargeConfig" =>
        \A g \in Groups, d \in Devices : cell_data[g][d].data = scanned[g][d].data
====
